---- MODULE Spec2Model ----
(***************************************************************************)
(* A model of the minesweeper grid engine (src/src/state.rs) and of the    *)
(* game controller that drives it (src/src/main.rs).                       *)
(*                                                                         *)
(* Three specifications share the variables:                               *)
(*   Spec       the controller: Model::create, then Model::update, one     *)
(*              action per message;                                        *)
(*   SpecGrid   the grid library on its own: grids built as struct         *)
(*              literals (as tests::test_reveal_empty_cells does) or by    *)
(*              the generators, then calls of reveal_empty_cells;          *)
(*   SpecCoord  the coordinate mapper: idx_to_xy, xy_to_idx and            *)
(*              valid_neighbor_indices applied to bounded inputs.          *)
(*                                                                         *)
(* Vec indices are 0-based as in the source, so grid_vec is a function on  *)
(* 0..len-1.  Option<T> is a sequence of length 0 (None) or 1 (Some(v)).   *)
(***************************************************************************)
EXTENDS Integers, Sequences, FiniteSets, TLC

VARIABLES
    state,                   \* Model.state : Grid (n_rows, n_cols, grid_vec)
    play_status,             \* Model.play_status : GameStatus
    selected_flag,           \* Model.selected_flag : Flag
    elapsed_time,            \* Model.elapsed_time
    timer_handle,            \* Model.timer_handle : Option<Interval>
    empty_cells_left,        \* Model.empty_cells_left
    selected_difficulty_idx, \* Model.selected_difficulty_idx
    pending,                 \* messages sent with link.send_message, not yet handled
    panicked,                \* a Rust panic has aborted the program
    call,                    \* the last library call: operation, arguments, result
    calls,                   \* number of reveal_empty_cells calls made on the grid
    frame                    \* the locals of a running reveal_empty_cells call

vars == <<state, play_status, selected_flag, elapsed_time, timer_handle,
          empty_cells_left, selected_difficulty_idx, pending, panicked,
          call, calls, frame>>

----------------------------------------------------------------------------
(* Bounds of the model.                                                    *)

\* main.rs sets NUMBER_OF_ROWS and NUMBER_OF_COLUMNS to 10; the controller is
\* checked on every scaled-down board of at most MaxRows x MaxCols and
\* MaxBoardCells cells.
MaxBoardCells == 6
\* elapsed_time is unbounded in the code; the timer stops ticking here.
MaxTime == 1
\* cells 0..MaxTagIdx-1 are the ones the player tags
MaxTagIdx == 1
\* dimensions of the grids the library is exercised on
MaxRows == 3
MaxCols == 3
MaxCells == 9
\* mines of a grid written as a struct literal
MaxMines == 2
\* reveal_empty_cells calls on one grid
MaxCalls == 2
\* iterations of the loop of one reveal_empty_cells call that are followed
MaxIterations == 40

----------------------------------------------------------------------------
(* Program constants.                                                      *)

MINE_PROPORTION == <<10, 5, 3>>
DEFAULT_DIFFICULTY == 0
\* `x as usize` of a negative isize adds 2^64 (2^32 on wasm32).  Any value
\* above every dimension behaves the same in xy_to_idx's comparisons.
USIZE_SPAN == 1073741824

----------------------------------------------------------------------------
(* Values.                                                                 *)

None == <<>>
Some(v) == <<v>>
Unwrap(o) == o[1]

Max(a, b) == IF a >= b THEN a ELSE b
Min(a, b) == IF a <= b THEN a ELSE b

\* enum CellData
Mine == [tag |-> "Mine"]
MineNeighbor(count) == [tag |-> "MineNeighbor", count |-> count]

\* struct Cell
Cell(is_mine, is_clicked, flag, data) ==
    [is_mine |-> is_mine, is_clicked |-> is_clicked, flag |-> flag, data |-> data]

AsUsize(i) == IF i < 0 THEN i + USIZE_SPAN ELSE i

----------------------------------------------------------------------------
(* Coordinate mapper.                                                      *)

\* A mutant of idx_to_xy: the row length taken to be n_rows.
IdxToXyByRows(idx, n_rows, n_cols) ==
    IF idx < n_rows * n_cols
    THEN <<<<idx \div n_rows, idx % n_rows>>>>
    ELSE <<>>

\* Grid::idx_to_xy
IdxToXy(idx, n_rows, n_cols) ==
    IF idx < n_rows * n_cols
    THEN Some(<<idx \div n_cols, idx % n_cols>>)
    ELSE None

\* A mutant of xy_to_idx: the column is not checked.
XyToIdxRowOnly(xy, n_rows, n_cols) ==
    IF xy[1] < n_rows
    THEN <<xy[1] * n_cols + xy[2]>>
    ELSE <<>>

\* Grid::xy_to_idx
XyToIdx(xy, n_rows, n_cols) ==
    IF xy[1] < n_rows /\ xy[2] < n_cols
    THEN Some(xy[1] * n_cols + xy[2])
    ELSE None

deltas == << <<1, 0>>, <<0, 1>>, <<-1, 0>>, <<0, -1>>,
             <<1, 1>>, <<-1, -1>>, <<1, -1>>, <<-1, 1>> >>

RECURSIVE FilterMapSome(_)
\* Iterator::filter_map(...).collect() on a sequence of Options
FilterMapSome(opts) ==
    IF opts = <<>> THEN <<>>
    ELSE (IF Head(opts) = None THEN <<>> ELSE <<Unwrap(Head(opts))>>)
         \o FilterMapSome(Tail(opts))

\* A mutant of valid_neighbor_indices: the neighbour index is computed as
\* idx + d_row * n_cols + d_col with only the row checked, so a cell in the
\* last column is given the first cell of the next row as a neighbour.
ValidNeighborIndicesWrapping(idx, n_rows, n_cols) ==
    IF IdxToXy(idx, n_rows, n_cols) = None THEN "Panic"
    ELSE
    LET xy == Unwrap(IdxToXy(idx, n_rows, n_cols))
        opt(dxy) ==
            IF (xy[1] = 0 /\ dxy[1] = -1) \/ (xy[1] = n_rows - 1 /\ dxy[1] = 1)
               \/ idx + dxy[1] * n_cols + dxy[2] < 0
               \/ idx + dxy[1] * n_cols + dxy[2] >= n_rows * n_cols
            THEN None
            ELSE Some(idx + dxy[1] * n_cols + dxy[2])
    IN  FilterMapSome([k \in 1..Len(deltas) |-> opt(deltas[k])])

\* Grid::valid_neighbor_indices.  "Panic" when idx_to_xy(..).unwrap() panics.
ValidNeighborIndices(idx, n_rows, n_cols) ==
    IF IdxToXy(idx, n_rows, n_cols) = None THEN "Panic"
    ELSE
    LET xy == Unwrap(IdxToXy(idx, n_rows, n_cols))
        opt(dxy) ==
            IF (xy[1] = 0 /\ dxy[1] = -1)
               \/ (xy[1] = n_rows - 1 /\ dxy[1] = 1)
               \/ (xy[2] = 0 /\ dxy[2] = -1)
               \/ (xy[2] = n_cols - 1 /\ dxy[2] = 1)
            THEN None
            ELSE XyToIdx(<<AsUsize(xy[1] + dxy[1]), AsUsize(xy[2] + dxy[2])>>,
                         n_rows, n_cols)
    IN  FilterMapSome([k \in 1..Len(deltas) |-> opt(deltas[k])])

----------------------------------------------------------------------------
(* Grid generator.                                                         *)

\* HashSet::from_iter((0..n).choose_multiple(rng, amount)): `amount` distinct
\* elements of the range, or all of them when the range holds fewer.
ChooseMultiple(n, amount) ==
    {S \in SUBSET (0..(n - 1)) : Cardinality(S) = Min(amount, n)}

\* A mutant of mine_count: the smallest dimension instead of the largest.
mine_count_smallest(n_rows, n_cols) == Min(n_rows, n_cols)

\* Grid::new: let mine_count = max(n_rows, n_cols)
mine_count(n_rows, n_cols) == Max(n_rows, n_cols)

\* A mutant of neighboring_mines_count: the neighbours that are not mined.
neighboring_safe_count(idx, n_rows, n_cols, mine_indices) ==
    LET neighbor_idx == ValidNeighborIndices(idx, n_rows, n_cols)
    IN  Cardinality({k \in 1..Len(neighbor_idx) : neighbor_idx[k] \notin mine_indices})

\* Grid::new: the count of valid neighbors that are mined
neighboring_mines_count(idx, n_rows, n_cols, mine_indices) ==
    LET neighbor_idx == ValidNeighborIndices(idx, n_rows, n_cols)
    IN  Cardinality({k \in 1..Len(neighbor_idx) : neighbor_idx[k] \in mine_indices})

\* A mutant of GridFromMines: is_mine is false in every cell pushed.
GridFromMinesNoMineFlag(n_rows, n_cols, mine_indices) ==
    [n_rows |-> n_rows,
     n_cols |-> n_cols,
     grid_vec |->
        [idx \in 0..(n_rows * n_cols - 1) |->
            IF idx \in mine_indices
            THEN Cell(FALSE, FALSE, None, Mine)
            ELSE Cell(FALSE, FALSE, None,
                      MineNeighbor(neighboring_mines_count(idx, n_rows, n_cols,
                                                           mine_indices)))]]

\* Grid::new, the loop filling grid_vec from the chosen mine_indices
GridFromMines(n_rows, n_cols, mine_indices) ==
    [n_rows |-> n_rows,
     n_cols |-> n_cols,
     grid_vec |->
        [idx \in 0..(n_rows * n_cols - 1) |->
            IF idx \in mine_indices
            THEN Cell(TRUE, FALSE, None, Mine)
            ELSE Cell(FALSE, FALSE, None,
                      MineNeighbor(neighboring_mines_count(idx, n_rows, n_cols,
                                                           mine_indices)))]]

\* Grid::new(n_rows, n_cols): every grid the random choice can produce
GridNew(n_rows, n_cols) ==
    {GridFromMines(n_rows, n_cols, mine_indices) :
        mine_indices \in ChooseMultiple(n_rows * n_cols, mine_count(n_rows, n_cols))}

\* A mutant of MineCountForDifficulty: the quotient is not clamped.
MineCountUnclamped(n_rows, n_cols, difficulty) ==
    {(n_rows * n_cols) \div MINE_PROPORTION[difficulty + 1]}

\* The mine count of the generator that takes a difficulty, which main.rs
\* calls and src/ does not hold: floor(cells / ratio) clamped to at least 1
\* and at most cells - 1.  With one cell the two clamps conflict and either
\* may win.  `difficulty` indexes MINE_PROPORTION from 0.
MineCountForDifficulty(n_rows, n_cols, difficulty) ==
    LET cells == n_rows * n_cols
        raw == cells \div MINE_PROPORTION[difficulty + 1]
    IN  {Max(1, Min(raw, cells - 1)), Min(cells - 1, Max(1, raw))}

\* Grid::new(n_rows, n_cols, difficulty) as main.rs calls it
GridNewDifficulty(n_rows, n_cols, difficulty) ==
    {GridFromMines(n_rows, n_cols, mine_indices) :
        mine_indices \in UNION {ChooseMultiple(n_rows * n_cols, Max(0, k)) :
                                  k \in MineCountForDifficulty(n_rows, n_cols, difficulty)}}

\* Grid::mine_count(&self) as main.rs calls it
GridMineCount(grid) ==
    Cardinality({idx \in DOMAIN grid.grid_vec : grid.grid_vec[idx].data = Mine})

----------------------------------------------------------------------------
(* Reveal engine.                                                          *)

\* the indices whose is_clicked is set
Revealed(grid) == {idx \in DOMAIN grid.grid_vec : grid.grid_vec[idx].is_clicked}

\* the indices holding a mine
Mines(grid) == {idx \in DOMAIN grid.grid_vec : grid.grid_vec[idx].data = Mine}

RECURSIVE RevealLoop(_, _, _, _)
\* Grid::reveal_empty_cells, the while loop: to_visit is the stack, popped at
\* its end.  The result holds the grid, the returned visited.len(), the
\* number of iterations, and whether grid_vec[cell_idx] panicked.
RevealLoop(grid, to_visit, visited, iterations) ==
    IF to_visit = <<>>
    THEN [grid |-> grid, ret |-> Cardinality(visited),
          iterations |-> iterations, panicked |-> FALSE]
    ELSE
    LET cell_idx == to_visit[Len(to_visit)]
        popped == SubSeq(to_visit, 1, Len(to_visit) - 1)
        visited2 == visited \cup {cell_idx}
    IN  IF cell_idx \notin DOMAIN grid.grid_vec
        THEN [grid |-> grid, ret |-> 0,
              iterations |-> iterations + 1, panicked |-> TRUE]
        ELSE
        LET grid2 == [grid EXCEPT !.grid_vec[cell_idx].is_clicked = TRUE]
            neighbor_indices ==
                IF grid2.grid_vec[cell_idx].data = MineNeighbor(0)
                THEN SelectSeq(ValidNeighborIndices(cell_idx, grid2.n_rows, grid2.n_cols),
                               LAMBDA nidx : nidx \notin visited2)
                ELSE <<>>
        IN  RevealLoop(grid2, popped \o neighbor_indices, visited2, iterations + 1)

\* A mutant of reveal_empty_cells: the start cell is revealed and the fill
\* does not propagate.
RevealEmptyCellsNoFill(grid, idx) ==
    IF idx \notin DOMAIN grid.grid_vec
    THEN [grid |-> grid, ret |-> 0, iterations |-> 1, panicked |-> TRUE]
    ELSE [grid |-> [grid EXCEPT !.grid_vec[idx].is_clicked = TRUE], ret |-> 1,
          iterations |-> 1, panicked |-> FALSE]

\* A mutant of reveal_empty_cells: the start cell's count is cleared.
RevealEmptyCellsClearsCount(grid, idx) ==
    LET r == RevealLoop(grid, <<idx>>, {}, 0)
    IN  IF r.panicked THEN r
        ELSE [r EXCEPT !.grid.grid_vec[idx].data = MineNeighbor(0)]

\* Grid::reveal_empty_cells
RevealEmptyCells(grid, idx) == RevealLoop(grid, <<idx>>, {}, 0)

----------------------------------------------------------------------------
(* Display.                                                                *)

\* Grid::overlay_display, the characters pushed for the cell at idx
OverlayCell(grid, idx) ==
    IF grid.grid_vec[idx].is_clicked
    THEN IF grid.grid_vec[idx].data = Mine
         THEN "*"
         ELSE ToString(grid.grid_vec[idx].data.count)
    ELSE "?"

\* Grid::overlay_display: the pushes made on grid_string, in order.  Each
\* cell is followed by ' ' (j != self.n_cols holds for every j of the loop)
\* and each row by '\n'.
OverlayDisplay(grid) ==
    LET row_len == 2 * grid.n_cols + 1
    IN  [k \in 1..(grid.n_rows * row_len) |->
            LET i == (k - 1) \div row_len
                p == (k - 1) % row_len
            IN  IF p = row_len - 1 THEN "\n"
                ELSE IF p % 2 = 1 THEN " "
                ELSE OverlayCell(grid, Unwrap(XyToIdx(<<i, p \div 2>>,
                                                      grid.n_rows, grid.n_cols)))]

----------------------------------------------------------------------------
(* The record of a library call.                                           *)

Call(op, arg, ret, before) == [op |-> op, arg |-> arg, ret |-> ret, before |-> before]
NoCall == Call("none", <<>>, None, {})

\* The controller's fields while the library is exercised on its own.
NoController ==
    /\ play_status = "Playing"
    /\ selected_flag = "Dig"
    /\ elapsed_time = 0
    /\ timer_handle = None
    /\ empty_cells_left = 0
    /\ selected_difficulty_idx = DEFAULT_DIFFICULTY
    /\ pending = <<>>
    /\ panicked = FALSE

controller_vars == <<play_status, selected_flag, elapsed_time, timer_handle,
                     empty_cells_left, selected_difficulty_idx, pending, panicked>>

\* the dimensions the library is exercised on
Dims == {rc \in (0..MaxRows) \X (0..MaxCols) : rc[1] * rc[2] <= MaxCells}

----------------------------------------------------------------------------
(* SpecGrid: generation and reveal.                                        *)

\* No grid has been built yet.
InitGrid ==
    /\ state = GridFromMines(0, 0, {})
    /\ call = NoCall
    /\ calls = 0
    /\ frame = None
    /\ NoController

\* let mut grid = Grid { n_rows, n_cols, grid_vec: vec![...] }: a grid written
\* as a struct literal with consistent neighbor counts, as in
\* tests::test_reveal_empty_cells.
Literal(n_rows, n_cols, mine_indices) ==
    /\ call.op = "none"
    /\ Cardinality(mine_indices) <= MaxMines
    /\ state' = GridFromMines(n_rows, n_cols, mine_indices)
    /\ call' = Call("literal", <<n_rows, n_cols>>, None, {})
    /\ calls' = 0
    /\ UNCHANGED <<controller_vars, frame>>

\* let mut grid = Grid::new(n_rows, n_cols)
CallNew(n_rows, n_cols) ==
    /\ call.op = "none"
    /\ state' \in GridNew(n_rows, n_cols)
    /\ call' = Call("new", <<n_rows, n_cols>>, None, {})
    /\ calls' = 0
    /\ UNCHANGED <<controller_vars, frame>>

\* let mut grid = Grid::new(n_rows, n_cols, difficulty).  A one-cell grid
\* cannot hold a mine and a safe cell: the call either returns a degenerate
\* grid or is rejected as InvalidDimensions.
CallNewDifficulty(n_rows, n_cols, difficulty) ==
    /\ call.op = "none"
    /\ n_rows >= 1
    /\ n_cols >= 1
    /\ \/ /\ state' \in GridNewDifficulty(n_rows, n_cols, difficulty)
          /\ call' = Call("new_difficulty", <<n_rows, n_cols, difficulty>>, Some("Grid"), {})
       \/ /\ n_rows * n_cols = 1
          /\ state' = state
          /\ call' = Call("new_difficulty", <<n_rows, n_cols, difficulty>>,
                          Some("InvalidDimensions"), {})
    /\ calls' = 0
    /\ UNCHANGED <<controller_vars, frame>>

\* grid.reveal_empty_cells(idx), idx any usize but the index of a mine.  With
\* idx out of range self.grid_vec[cell_idx] panics and nothing is returned.
CallReveal(idx) ==
    /\ call.op # "none"
    /\ ~panicked
    /\ calls < MaxCalls
    /\ idx \in DOMAIN state.grid_vec => state.grid_vec[idx].data # Mine
    /\ LET r == RevealEmptyCells(state, idx)
       IN  /\ state' = r.grid
           /\ panicked' = r.panicked
           /\ call' = Call("reveal", <<idx>>, r.ret, Revealed(state))
    /\ calls' = calls + 1
    /\ UNCHANGED <<play_status, selected_flag, elapsed_time, timer_handle,
                   empty_cells_left, selected_difficulty_idx, pending, frame>>

NextGrid ==
    \/ \E rc \in Dims : \E mine_indices \in SUBSET (0..(rc[1] * rc[2] - 1)) :
            Literal(rc[1], rc[2], mine_indices)
    \/ \E rc \in Dims : CallNew(rc[1], rc[2])
    \/ \E rc \in Dims : \E difficulty \in 0..(Len(MINE_PROPORTION) - 1) :
            CallNewDifficulty(rc[1], rc[2], difficulty)
    \/ \E idx \in 0..MaxCells : CallReveal(idx)

SpecGrid == InitGrid /\ [][NextGrid]_vars

----------------------------------------------------------------------------
(* SpecCoord: the coordinate mapper.                                       *)

InitCoord ==
    /\ state \in {GridFromMines(rc[1], rc[2], {}) : rc \in Dims}
    /\ call = NoCall
    /\ calls = 0
    /\ frame = None
    /\ NoController

\* Grid::idx_to_xy(idx, n_rows, n_cols)
CallIdxToXy(idx) ==
    /\ call' = Call("idx_to_xy", <<idx>>, IdxToXy(idx, state.n_rows, state.n_cols), {})
    /\ UNCHANGED <<state, calls, controller_vars, frame>>

\* Grid::xy_to_idx(xy, n_rows, n_cols)
CallXyToIdx(xy) ==
    /\ call' = Call("xy_to_idx", <<xy>>, XyToIdx(xy, state.n_rows, state.n_cols), {})
    /\ UNCHANGED <<state, calls, controller_vars, frame>>

\* Grid::valid_neighbor_indices(idx, n_rows, n_cols)
CallValidNeighborIndices(idx) ==
    /\ call' = Call("valid_neighbor_indices", <<idx>>,
                    ValidNeighborIndices(idx, state.n_rows, state.n_cols), {})
    /\ UNCHANGED <<state, calls, controller_vars, frame>>

NextCoord ==
    \/ \E idx \in 0..(MaxCells + 1) : CallIdxToXy(idx)
    \/ \E xy \in (0..(MaxRows + 1)) \X (0..(MaxCols + 1)) : CallXyToIdx(xy)
    \/ \E idx \in 0..(MaxCells + 1) : CallValidNeighborIndices(idx)

SpecCoord == InitCoord /\ [][NextCoord]_vars

----------------------------------------------------------------------------
(* SpecReveal: reveal_empty_cells, one loop iteration at a time.           *)

\* the locals of reveal_empty_cells: the argument, the stack, the visited
\* set, the iterations made, and the cells revealed when it was called
Frame(idx, to_visit, visited, iterations, before) ==
    [idx |-> idx, to_visit |-> to_visit, visited |-> visited,
     iterations |-> iterations, before |-> before]

\* A mutant of PopBack: the last element is read and left on the stack.
PeekBack(to_visit) == to_visit

\* Vec::pop: what is left of the stack
PopBack(to_visit) == SubSeq(to_visit, 1, Len(to_visit) - 1)

\* the place of a cell of an n_rows x n_cols grid in NeighborTable
NeighborKey(idx, n_rows, n_cols) ==
    (n_rows * (MaxCols + 1) + n_cols) * MaxCells + idx

\* Grid::valid_neighbor_indices(idx, n_rows, n_cols) for every cell of every
\* grid the loop is stepped on, computed once
NeighborTable ==
    [key \in 0..((MaxRows + 1) * (MaxCols + 1) * MaxCells - 1) |->
        ValidNeighborIndices(key % MaxCells,
                             key \div (MaxCells * (MaxCols + 1)),
                             (key \div MaxCells) % (MaxCols + 1))]

\* the grids with at least one cell and consistent neighbor counts
RevealGrids ==
    UNION {{GridFromMines(rc[1], rc[2], mine_indices) :
                mine_indices \in {S \in SUBSET (0..(rc[1] * rc[2] - 1)) :
                                    Cardinality(S) <= MaxMines}} :
           rc \in {d \in Dims : d[1] * d[2] >= 1}}

InitReveal ==
    /\ state \in RevealGrids
    /\ call = NoCall
    /\ calls = 0
    /\ frame = None
    /\ NoController

\* reveal_empty_cells(idx) is entered with idx in range: to_visit.push(idx)
RevealEnter(idx) ==
    /\ frame = None
    /\ calls < MaxCalls
    /\ idx \in DOMAIN state.grid_vec
    /\ frame' = Some(Frame(idx, <<idx>>, {}, 0, Revealed(state)))
    /\ calls' = calls + 1
    /\ UNCHANGED <<state, call, controller_vars>>

\* one iteration of `while !to_visit.is_empty()`
RevealStep ==
    /\ frame # None
    /\ Unwrap(frame).to_visit # <<>>
    /\ Unwrap(frame).iterations < MaxIterations
    /\ LET f == Unwrap(frame)
           cell_idx == f.to_visit[Len(f.to_visit)]
           visited2 == f.visited \cup {cell_idx}
           neighbor_indices ==
               IF state.grid_vec[cell_idx].data = MineNeighbor(0)
               THEN SelectSeq(NeighborTable[NeighborKey(cell_idx, state.n_rows,
                                                       state.n_cols)],
                              LAMBDA nidx : nidx \notin visited2)
               ELSE <<>>
       IN  /\ state' = [state EXCEPT !.grid_vec[cell_idx].is_clicked = TRUE]
           /\ frame' = Some(Frame(f.idx, PopBack(f.to_visit) \o neighbor_indices,
                                  visited2, f.iterations + 1, f.before))
    /\ UNCHANGED <<call, calls, controller_vars>>

\* the loop is left and visited.len() is returned
RevealReturn ==
    /\ frame # None
    /\ Unwrap(frame).to_visit = <<>>
    /\ call' = Call("reveal", <<Unwrap(frame).idx>>,
                    Cardinality(Unwrap(frame).visited), Unwrap(frame).before)
    /\ frame' = None
    /\ UNCHANGED <<state, calls, controller_vars>>

NextReveal ==
    \/ \E idx \in 0..(MaxCells - 1) : RevealEnter(idx)
    \/ RevealStep
    \/ RevealReturn

SpecReveal == InitReveal /\ [][NextReveal]_vars

\* The thread running reveal_empty_cells is not suspended: an iteration or
\* the return that can be made is made.  Both change `frame`.
SpecRevealLive == SpecReveal /\ WF_frame(RevealStep) /\ WF_frame(RevealReturn)

----------------------------------------------------------------------------
(* Spec: the game controller.                                              *)
(*                                                                         *)
(* link.send_message from inside update queues the message; the scheduler  *)
(* handles it as soon as the running update returns, before any further    *)
(* browser event (click, timer tick) is delivered.  So the player's and    *)
(* the timer's messages arrive only while `pending` is empty.              *)

\* usize subtraction without overflow checks wraps
WrappingSub(a, b) == (a - b) % USIZE_SPAN

\* Interval::new(1000, ...) held in timer_handle
Interval == "Interval"

\* the cells the player can click
CellIndices == DOMAIN state.grid_vec

\* <<NUMBER_OF_ROWS, NUMBER_OF_COLUMNS>>: the boards the controller is built
\* for.  A game needs a mine and a safe cell, so a board has two cells or
\* more.
Boards ==
    {rc \in (1..MaxRows) \X (1..MaxCols) :
        rc[1] * rc[2] >= 2 /\ rc[1] * rc[2] <= MaxBoardCells}

\* the place of a board and a difficulty in FreshGrids
GridKey(n_rows, n_cols, difficulty) ==
    ((n_rows - 1) * MaxCols + (n_cols - 1)) * Len(MINE_PROPORTION) + difficulty

\* Grid::new(NUMBER_OF_ROWS, NUMBER_OF_COLUMNS, difficulty) for each board and
\* each difficulty of the table: the grids a game can start from
FreshGrids ==
    [key \in 0..(MaxRows * MaxCols * Len(MINE_PROPORTION) - 1) |->
        LET difficulty == key % Len(MINE_PROPORTION)
            n_cols == ((key \div Len(MINE_PROPORTION)) % MaxCols) + 1
            n_rows == (key \div (Len(MINE_PROPORTION) * MaxCols)) + 1
        IN  IF <<n_rows, n_cols>> \in Boards
            THEN GridNewDifficulty(n_rows, n_cols, difficulty)
            ELSE {}]


\* a browser event can be delivered
Idle == pending = <<>> /\ ~panicked

\* Model::create
Init ==
    /\ \E rc \in Boards : state \in FreshGrids[GridKey(rc[1], rc[2], DEFAULT_DIFFICULTY)]
    /\ play_status = "Playing"
    /\ selected_flag = "Dig"
    /\ elapsed_time = 0
    /\ timer_handle = Some(Interval)
    /\ empty_cells_left = Cardinality(DOMAIN state.grid_vec) - GridMineCount(state)
    /\ selected_difficulty_idx = DEFAULT_DIFFICULTY
    /\ pending = <<>>
    /\ panicked = FALSE
    /\ call = NoCall
    /\ calls = 0
    /\ frame = None

\* A mutant of ClickedDig: the clicked cell's content is not tested, so a
\* mine is revealed like any other cell.
ClickedDigAnyCell(idx) ==
    /\ Idle
    /\ selected_flag = "Dig"
    /\ IF ~state.grid_vec[idx].is_clicked /\ play_status = "Playing"
       THEN LET r == RevealEmptyCells(state, idx)
            IN  /\ state' = r.grid
                /\ empty_cells_left' = WrappingSub(empty_cells_left, r.ret)
                /\ pending' = IF empty_cells_left' = 0 THEN Append(pending, "Win")
                              ELSE pending
                /\ UNCHANGED panicked
       ELSE UNCHANGED <<state, empty_cells_left, pending, panicked>>
    /\ UNCHANGED <<play_status, selected_flag, elapsed_time, timer_handle,
                   selected_difficulty_idx, call, calls, frame>>

\* A mutant of ClickedDig: play_status is not tested, so a dig is carried
\* out after the game has ended.
ClickedDigAnyStatus(idx) ==
    /\ Idle
    /\ selected_flag = "Dig"
    /\ IF ~state.grid_vec[idx].is_clicked
       THEN IF state.grid_vec[idx].data = Mine
            THEN /\ pending' = Append(pending, "Loss")
                 /\ UNCHANGED <<state, empty_cells_left, panicked>>
            ELSE LET r == RevealEmptyCells(state, idx)
                 IN  /\ state' = r.grid
                     /\ empty_cells_left' = WrappingSub(empty_cells_left, r.ret)
                     /\ pending' = IF empty_cells_left' = 0 THEN Append(pending, "Win")
                                   ELSE pending
                     /\ UNCHANGED panicked
       ELSE UNCHANGED <<state, empty_cells_left, pending, panicked>>
    /\ UNCHANGED <<play_status, selected_flag, elapsed_time, timer_handle,
                   selected_difficulty_idx, call, calls, frame>>

\* Model::update, Msg::Clicked with Flag::Dig selected.  When the count
\* returned by reveal_empty_cells exceeds empty_cells_left the subtraction
\* panics in a build with overflow checks and wraps in one without.
ClickedDig(idx) ==
    /\ Idle
    /\ selected_flag = "Dig"
    /\ IF ~state.grid_vec[idx].is_clicked /\ play_status = "Playing"
       THEN IF state.grid_vec[idx].data = Mine
            THEN /\ pending' = Append(pending, "Loss")
                 /\ UNCHANGED <<state, empty_cells_left, panicked>>
            ELSE LET r == RevealEmptyCells(state, idx)
                 IN  /\ state' = r.grid
                     /\ \E overflow_checks \in BOOLEAN :
                          IF r.ret > empty_cells_left /\ overflow_checks
                          THEN /\ panicked' = TRUE
                               /\ UNCHANGED <<empty_cells_left, pending>>
                          ELSE /\ empty_cells_left' = WrappingSub(empty_cells_left, r.ret)
                               /\ pending' = IF empty_cells_left' = 0
                                             THEN Append(pending, "Win")
                                             ELSE pending
                               /\ UNCHANGED panicked
       ELSE UNCHANGED <<state, empty_cells_left, pending, panicked>>
    /\ UNCHANGED <<play_status, selected_flag, elapsed_time, timer_handle,
                   selected_difficulty_idx, call, calls, frame>>

\* A mutant of ClickedTag: every cell is marked, not only the clicked one.
ClickedTagAllCells(idx) ==
    /\ Idle
    /\ selected_flag = "Tag"
    /\ state' = [state EXCEPT !.grid_vec =
                    [j \in DOMAIN state.grid_vec |->
                        [state.grid_vec[j] EXCEPT !.flag = Some(selected_flag)]]]
    /\ UNCHANGED <<play_status, selected_flag, elapsed_time, timer_handle,
                   empty_cells_left, selected_difficulty_idx, pending, panicked,
                   call, calls, frame>>

\* Model::update, Msg::Clicked with Flag::Tag selected
ClickedTag(idx) ==
    /\ Idle
    /\ selected_flag = "Tag"
    /\ state' = [state EXCEPT !.grid_vec[idx].flag = Some(selected_flag)]
    /\ UNCHANGED <<play_status, selected_flag, elapsed_time, timer_handle,
                   empty_cells_left, selected_difficulty_idx, pending, panicked,
                   call, calls, frame>>

\* Model::update, Msg::Loss
Loss ==
    /\ ~panicked
    /\ pending # <<>>
    /\ Head(pending) = "Loss"
    /\ pending' = Tail(pending)
    /\ play_status' = "Lost"
    /\ timer_handle' = None
    /\ UNCHANGED <<state, selected_flag, elapsed_time, empty_cells_left,
                   selected_difficulty_idx, panicked, call, calls, frame>>

\* A mutant of Reset: elapsed_time and empty_cells_left are left as they
\* were.
ResetGridOnly ==
    /\ Idle
    /\ play_status' = "Playing"
    /\ state' \in FreshGrids[GridKey(state.n_rows, state.n_cols, selected_difficulty_idx)]
    /\ timer_handle' = Some(Interval)
    /\ UNCHANGED <<elapsed_time, empty_cells_left, selected_flag,
                   selected_difficulty_idx, pending, panicked, call, calls, frame>>

\* Model::update, Msg::Reset
Reset ==
    /\ Idle
    /\ play_status' = "Playing"
    /\ state' \in FreshGrids[GridKey(state.n_rows, state.n_cols, selected_difficulty_idx)]
    /\ elapsed_time' = 0
    /\ timer_handle' = Some(Interval)
    /\ empty_cells_left' = Cardinality(DOMAIN state'.grid_vec) - GridMineCount(state')
    /\ UNCHANGED <<selected_flag, selected_difficulty_idx, pending, panicked,
                   call, calls, frame>>

\* A mutant of Flagged: the marked cell is revealed as well.
FlaggedReveals(idx, flag) ==
    /\ Idle
    /\ state' = [state EXCEPT !.grid_vec[idx].flag = Some(flag),
                              !.grid_vec[idx].is_clicked = TRUE]
    /\ UNCHANGED <<play_status, selected_flag, elapsed_time, timer_handle,
                   empty_cells_left, selected_difficulty_idx, pending, panicked,
                   call, calls, frame>>

\* Model::update, Msg::Flagged
Flagged(idx, flag) ==
    /\ Idle
    /\ state' = [state EXCEPT !.grid_vec[idx].flag = Some(flag)]
    /\ UNCHANGED <<play_status, selected_flag, elapsed_time, timer_handle,
                   empty_cells_left, selected_difficulty_idx, pending, panicked,
                   call, calls, frame>>

\* Model::update, Msg::ChangeFlag
ChangeFlag ==
    /\ Idle
    /\ selected_flag' = IF selected_flag = "Dig" THEN "Tag" ELSE "Dig"
    /\ UNCHANGED <<state, play_status, elapsed_time, timer_handle,
                   empty_cells_left, selected_difficulty_idx, pending, panicked,
                   call, calls, frame>>

\* Model::update, Msg::IncrementTimer, sent by the Interval while it is held
IncrementTimer ==
    /\ Idle
    /\ timer_handle # None
    /\ elapsed_time < MaxTime
    /\ elapsed_time' = elapsed_time + 1
    /\ UNCHANGED <<state, play_status, selected_flag, timer_handle,
                   empty_cells_left, selected_difficulty_idx, pending, panicked,
                   call, calls, frame>>

\* Model::update, Msg::Win
Win ==
    /\ ~panicked
    /\ pending # <<>>
    /\ Head(pending) = "Win"
    /\ pending' = Tail(pending)
    /\ timer_handle' = None
    /\ play_status' = "Won"
    /\ UNCHANGED <<state, selected_flag, elapsed_time, empty_cells_left,
                   selected_difficulty_idx, panicked, call, calls, frame>>

\* Model::update, Msg::ChangeDifficulty
ChangeDifficulty ==
    /\ Idle
    /\ selected_difficulty_idx' = (selected_difficulty_idx + 1) % Len(MINE_PROPORTION)
    /\ play_status' = "Playing"
    /\ state' \in FreshGrids[GridKey(state.n_rows, state.n_cols, selected_difficulty_idx')]
    /\ elapsed_time' = 0
    /\ timer_handle' = Some(Interval)
    /\ empty_cells_left' = Cardinality(DOMAIN state'.grid_vec) - GridMineCount(state')
    /\ UNCHANGED <<selected_flag, pending, panicked, call, calls, frame>>

\* the cells the player tags in the model
TagIndices == {idx \in CellIndices : idx < MaxTagIdx}

Next ==
    \/ \E idx \in CellIndices : ClickedDig(idx)
    \/ \E idx \in TagIndices : ClickedTag(idx)
    \/ Loss
    \/ Reset
    \/ \E idx \in TagIndices : \E flag \in {"Dig", "Tag"} : Flagged(idx, flag)
    \/ ChangeFlag
    \/ IncrementTimer
    \/ Win
    \/ ChangeDifficulty

Spec == Init /\ [][Next]_vars

----------------------------------------------------------------------------
(* Properties of the controller (Spec).                                    *)

\* every non-mine cell of the current grid is revealed
AllSafeRevealed ==
    \A idx \in DOMAIN state.grid_vec :
        state.grid_vec[idx].data # Mine => state.grid_vec[idx].is_clicked

\* Msg::Win has been sent or handled
WinSignalled ==
    \/ play_status = "Won"
    \/ \E k \in 1..Len(pending) : pending[k] = "Win"

\* C2: a win is signalled at the dig after which every non-mine cell of the
\* current grid is revealed, and never while some non-mine cell is still
\* unrevealed.
C2_WinExactlyWhenAllSafeRevealed ==
    /\ WinSignalled => AllSafeRevealed
    /\ (AllSafeRevealed /\ play_status = "Playing") => WinSignalled

\* C4: no Mine cell is ever revealed, whatever messages the controller
\* handles.
C4_NoMineRevealed ==
    \A idx \in DOMAIN state.grid_vec :
        state.grid_vec[idx].data = Mine => ~state.grid_vec[idx].is_clicked

C4_Witness ==
    /\ play_status = "Lost"
    /\ Cardinality(Revealed(state)) >= 3
    /\ \E idx \in Revealed(state) : state.grid_vec[idx].data = MineNeighbor(0)
    /\ Mines(state) \cap Revealed(state) = {}

\* the step sends msg with link.send_message
Sent(msg) == pending' = Append(pending, msg)

\* the step starts a new game
NewGame == Reset \/ ChangeDifficulty

\* C13: Lost and Won are terminal for the current game: until a Reset or a
\* ChangeDifficulty the status stays what it is and no step changes a
\* revealed flag or empty_cells_left; the status leaves Playing only to Lost,
\* by the Loss a dig on a mine sent, or to Won, by the Win a dig sent when
\* empty_cells_left reached 0.
C13_LostAndWonAreTerminal ==
    [][/\ (play_status \in {"Lost", "Won"} /\ ~NewGame) =>
             /\ play_status' = play_status
             /\ Revealed(state') = Revealed(state)
             /\ empty_cells_left' = empty_cells_left
       /\ (play_status = "Playing" /\ play_status' # "Playing") =>
             \/ play_status' = "Lost" /\ pending # <<>> /\ Head(pending) = "Loss"
             \/ /\ play_status' = "Won"
                /\ pending # <<>> /\ Head(pending) = "Win"
                /\ empty_cells_left = 0
       /\ Sent("Loss") =>
             /\ play_status = "Playing"
             /\ \E idx \in CellIndices :
                    ClickedDig(idx) /\ state.grid_vec[idx].data = Mine
       /\ Sent("Win") =>
             /\ play_status = "Playing"
             /\ empty_cells_left' = 0
             /\ \E idx \in CellIndices : ClickedDig(idx)
      ]_vars

C13_Witness ==
    /\ play_status = "Won"
    /\ selected_flag = "Dig"
    /\ pending = <<>>
    /\ empty_cells_left = 0
    /\ elapsed_time = MaxTime
    /\ \E idx \in CellIndices : ~state.grid_vec[idx].is_clicked

\* C15: empty_cells_left -= clicked_cells_count never underflows: whenever a
\* dig on an unrevealed non-mine cell can be made while Playing, the count
\* reveal_empty_cells returns for it is at most empty_cells_left.
C15_SubtractionNeverUnderflows ==
    (Idle /\ play_status = "Playing" /\ selected_flag = "Dig") =>
        \A idx \in CellIndices :
            (~state.grid_vec[idx].is_clicked /\ state.grid_vec[idx].data # Mine) =>
                RevealEmptyCells(state, idx).ret <= empty_cells_left

\* the non-mine cells of the current grid that are not revealed
SafeUnrevealed ==
    {idx \in CellIndices :
        state.grid_vec[idx].data # Mine /\ ~state.grid_vec[idx].is_clicked}

\* C16: in every reachable state empty_cells_left is the number of non-mine
\* cells of the current grid that are not yet revealed.
C16_CounterIsSafeUnrevealed ==
    empty_cells_left = Cardinality(SafeUnrevealed)

\* the overlay of a grid none of whose cells is revealed
UnknownOverlay(n_rows, n_cols) ==
    [k \in 1..(n_rows * (2 * n_cols + 1)) |->
        IF (k - 1) % (2 * n_cols + 1) = 2 * n_cols THEN "\n"
        ELSE IF ((k - 1) % (2 * n_cols + 1)) % 2 = 1 THEN " "
        ELSE "?"]

\* a game has just started
FreshGame ==
    /\ play_status = "Playing"
    /\ DOMAIN state.grid_vec = 0..(state.n_rows * state.n_cols - 1)
    /\ \A idx \in DOMAIN state.grid_vec :
          ~state.grid_vec[idx].is_clicked /\ state.grid_vec[idx].flag = None
    /\ elapsed_time = 0
    /\ empty_cells_left = Cardinality(DOMAIN state.grid_vec) - Cardinality(Mines(state))

\* C17: at game start and after every Reset or ChangeDifficulty, whatever
\* the state before, the status is Playing, the grid has the same
\* dimensions with every cell unrevealed and unmarked (the overlay shows
\* '?' for every cell), elapsed_time is 0 and empty_cells_left is the number
\* of cells minus the number of mines of the new grid.
C17_NewGameIsFresh ==
    /\ FreshGame
    /\ [](Revealed(state) = {} =>
            OverlayDisplay(state) = UnknownOverlay(state.n_rows, state.n_cols))
    /\ [][NewGame => /\ FreshGame'
                     /\ state'.n_rows = state.n_rows
                     /\ state'.n_cols = state.n_cols]_vars

C17_Witness ==
    /\ FreshGame
    /\ OverlayDisplay(state) = UnknownOverlay(state.n_rows, state.n_cols)
    /\ selected_difficulty_idx = 2
    /\ selected_flag = "Tag"
    /\ state.n_rows = 2
    /\ state.n_cols = 3
    /\ Cardinality(Mines(state)) = 2

\* the step is a dig that called reveal_empty_cells
DigRevealed ==
    \E idx \in CellIndices :
        /\ ClickedDig(idx)
        /\ ~state.grid_vec[idx].is_clicked
        /\ play_status = "Playing"
        /\ state.grid_vec[idx].data # Mine
        /\ state' = RevealEmptyCells(state, idx).grid

\* C18: within a game a revealed cell stays revealed under every message
\* but Reset and ChangeDifficulty, and a cell becomes revealed only in a
\* reveal_empty_cells call made by a dig.
C18_RevealIsIrreversible ==
    [][~NewGame =>
          /\ Revealed(state) \subseteq Revealed(state')
          /\ Revealed(state') # Revealed(state) => DigRevealed]_vars

C18_Witness ==
    /\ play_status = "Playing"
    /\ state.grid_vec[0].is_clicked
    /\ state.grid_vec[0].flag = Some("Dig")
    /\ Cardinality(Revealed(state)) >= 2
    /\ elapsed_time = MaxTime
    /\ selected_flag = "Tag"

\* C19: the length of grid_vec is always n_rows * n_cols, and within a game
\* no message changes the content of a cell, n_rows or n_cols.
C19_ContentAndShapeFixed ==
    /\ [](DOMAIN state.grid_vec = 0..(state.n_rows * state.n_cols - 1))
    /\ [][~NewGame =>
            /\ state'.n_rows = state.n_rows
            /\ state'.n_cols = state.n_cols
            /\ DOMAIN state'.grid_vec = DOMAIN state.grid_vec
            /\ \A idx \in DOMAIN state.grid_vec :
                  /\ state'.grid_vec[idx].data = state.grid_vec[idx].data
                  /\ state'.grid_vec[idx].is_mine = state.grid_vec[idx].is_mine]_vars

C19_Witness ==
    /\ play_status = "Playing"
    /\ state.n_rows = 2
    /\ state.n_cols = 3
    /\ Cardinality(Revealed(state)) = 3
    /\ state.grid_vec[0].flag = Some("Tag")
    /\ \E idx \in Revealed(state) : state.grid_vec[idx].data = MineNeighbor(2)

\* the step is a tag of the cell idx: a click with the Tag tool selected or
\* a Flagged message
TagAction(idx) ==
    \/ ClickedTag(idx)
    \/ \E flag \in {"Dig", "Tag"} : Flagged(idx, flag)

\* C20: a dig leaves the mark of every cell unchanged; a tag changes only
\* the mark of the clicked cell and leaves every revealed flag and content,
\* empty_cells_left and the status unchanged.
C20_MarksAndRevealsIndependent ==
    [][/\ (\E idx \in CellIndices : ClickedDig(idx)) =>
             \A j \in CellIndices : state'.grid_vec[j].flag = state.grid_vec[j].flag
       /\ \A idx \in CellIndices :
             TagAction(idx) =>
                /\ state' = [state EXCEPT !.grid_vec[idx].flag = state'.grid_vec[idx].flag]
                /\ empty_cells_left' = empty_cells_left
                /\ play_status' = play_status
      ]_vars

C20_Witness ==
    /\ play_status = "Playing"
    /\ state.grid_vec[0].flag = Some("Tag")
    /\ ~state.grid_vec[0].is_clicked
    /\ Cardinality(Revealed(state)) >= 2
    /\ empty_cells_left >= 1
    /\ empty_cells_left < Cardinality(DOMAIN state.grid_vec)

----------------------------------------------------------------------------
(* Properties of the reveal engine (SpecGrid).                             *)

\* C1: reveal_empty_cells returns the number of cells whose is_clicked went
\* from false to true during the call, so a repeated call returns 0.
C1_ReturnCountsNewlyRevealed ==
    call.op = "reveal" =>
        call.ret = Cardinality(Revealed(state) \ call.before)

\* the valid neighbors of idx, as a set
NeighborSet(grid, idx) ==
    LET nb == ValidNeighborIndices(idx, grid.n_rows, grid.n_cols)
    IN  {nb[k] : k \in 1..Len(nb)}

RECURSIVE FloodRegion(_, _)
\* the least set that contains R and every valid neighbor of each
\* MineNeighbor(0) cell in it
FloodRegion(grid, R) ==
    LET grown == R \cup UNION {NeighborSet(grid, idx) :
                                idx \in {j \in R : grid.grid_vec[j].data = MineNeighbor(0)}}
    IN  IF grown = R THEN R ELSE FloodRegion(grid, grown)

\* C3: after reveal_empty_cells(start) on a non-mine start, the revealed
\* cells are those revealed before together with the flood region of start,
\* and no other cell changed; on the 3x3 grid with one mine at index 0,
\* reveal from index 8 reveals exactly the 8 non-mine cells.
C3_RevealIsFloodRegion ==
    (call.op = "reveal" /\ ~panicked) =>
        /\ Revealed(state) = call.before \cup FloodRegion(state, {call.arg[1]})
        /\ (/\ state.n_rows = 3
            /\ state.n_cols = 3
            /\ Mines(state) = {0}
            /\ call.arg[1] = 8
            /\ call.before = {})
           => Revealed(state) = 1..8

C3_Witness ==
    /\ call.op = "reveal"
    /\ state.n_rows = 3
    /\ state.n_cols = 3
    /\ Mines(state) = {0}
    /\ call.arg[1] = 8
    /\ call.before = {}
    /\ Cardinality(Revealed(state)) = 8

----------------------------------------------------------------------------
(* Properties of the reveal loop (SpecReveal, SpecRevealLive).             *)

\* C12: reveal_empty_cells terminates for every grid and every in-range
\* start index: a call that was entered empties its stack and returns.
C12_RevealTerminates == (frame # None) ~> (frame = None)

C12_Witness ==
    /\ frame = None
    /\ call.op = "reveal"
    /\ state.n_rows = 3
    /\ state.n_cols = 3
    /\ Mines(state) = {}
    /\ Revealed(state) = 0..8
    /\ call.ret = 9

\* C14: during one reveal_empty_cells call each cell is pushed at most once
\* and popped at most once (no cell is on the stack twice, no visited cell
\* is on the stack), so the loop makes at most n_rows * n_cols iterations.
C14_EachCellOnce ==
    frame # None =>
        LET f == Unwrap(frame)
        IN  /\ \A j, k \in 1..Len(f.to_visit) : f.to_visit[j] = f.to_visit[k] => j = k
            /\ \A k \in 1..Len(f.to_visit) : f.to_visit[k] \notin f.visited
            /\ f.iterations <= state.n_rows * state.n_cols

\* the stepped loop never reaches the bound on the iterations followed
IterationsWithinBound == frame # None => Unwrap(frame).iterations < MaxIterations

\* the stepped loop and RevealEmptyCells agree: the count returned is the
\* number of cells of the flood region of the start index
StepwiseAgrees ==
    (call.op = "reveal" /\ frame = None) =>
        /\ Revealed(state) = call.before \cup FloodRegion(state, {call.arg[1]})
        /\ call.ret = Cardinality(FloodRegion(state, {call.arg[1]}))

----------------------------------------------------------------------------
(* Properties of the grid generator (SpecGrid).                            *)

\* C11: no library call aborts on bad input: reveal_empty_cells with an index
\* >= n_rows * n_cols, and generation with n_rows = 0 or n_cols = 0, return
\* normally and never reach a panic or an out-of-bounds access.
C11_NoPanicOnBadInput == ~panicked

\* C5: Grid::new(n_rows, n_cols) with n_rows, n_cols >= 1 returns a grid of
\* n_rows * n_cols cells of which exactly max(n_rows, n_cols) are mines.
C5_NewCellAndMineCount ==
    (call.op = "new" /\ call.arg[1] >= 1 /\ call.arg[2] >= 1) =>
        /\ state.n_rows = call.arg[1]
        /\ state.n_cols = call.arg[2]
        /\ DOMAIN state.grid_vec = 0..(call.arg[1] * call.arg[2] - 1)
        /\ Cardinality(Mines(state)) =
              (IF call.arg[1] >= call.arg[2] THEN call.arg[1] ELSE call.arg[2])

C5_Witness ==
    /\ call.op = "new"
    /\ call.arg = <<2, 3>>
    /\ Cardinality(Mines(state)) = 3
    /\ Cardinality(DOMAIN state.grid_vec) = 6

\* whether `count` is floor(cells / ratio) clamped to [1, cells - 1]
IsClampedQuotient(count, cells, ratio) ==
    /\ count >= 1
    /\ count <= cells - 1
    /\ \/ count = cells \div ratio
       \/ cells \div ratio < 1 /\ count = 1
       \/ cells \div ratio > cells - 1 /\ count = cells - 1

C7_NeighborCountsConsistent ==
    call.op # "none" =>
        \A idx \in DOMAIN state.grid_vec :
            state.grid_vec[idx].data # Mine =>
                LET nb == ValidNeighborIndices(idx, state.n_rows, state.n_cols)
                    mined == {k \in 1..Len(nb) : state.grid_vec[nb[k]].data = Mine}
                IN  /\ state.grid_vec[idx].data = MineNeighbor(Cardinality(mined))
                    /\ Cardinality(mined) \in 0..8

C7_Witness ==
    /\ call.op = "new"
    /\ call.arg = <<3, 3>>
    /\ Mines(state) = {0, 1, 2}
    /\ state.grid_vec[4].data = MineNeighbor(3)
    /\ state.grid_vec[8].data = MineNeighbor(0)

\* C21: in every generated grid and in every state reached from it, a
\* cell's is_mine is true exactly when its data is CellData::Mine.
C21_IsMineMatchesData ==
    \A idx \in DOMAIN state.grid_vec :
        state.grid_vec[idx].is_mine <=> state.grid_vec[idx].data = Mine

C21_Witness ==
    /\ call.op = "reveal"
    /\ calls = MaxCalls
    /\ state.n_rows = 3
    /\ state.n_cols = 3
    /\ Cardinality({idx \in DOMAIN state.grid_vec : state.grid_vec[idx].is_mine}) = 3
    /\ Cardinality({idx \in DOMAIN state.grid_vec : ~state.grid_vec[idx].is_mine}) = 6
    /\ Cardinality(Revealed(state)) >= 2

----------------------------------------------------------------------------
(* Properties of the coordinate mapper (SpecCoord).                        *)

Abs(i) == IF i < 0 THEN -i ELSE i

\* the cells other than idx whose row and column are within 1 of idx's
Adjacent(idx, n_rows, n_cols) ==
    {j \in 0..(n_rows * n_cols - 1) :
        /\ j # idx
        /\ Abs((j \div n_cols) - (idx \div n_cols)) <= 1
        /\ Abs((j % n_cols) - (idx % n_cols)) <= 1}

\* C8: valid_neighbor_indices(idx) lists, without duplicates, exactly the
\* cells adjacent to idx inside the grid: 3 for a corner, 5 for an edge
\* cell and 8 for an interior cell when both dimensions are at least 3.
C8_NeighborsAreAdjacentCells ==
    (/\ call.op = "valid_neighbor_indices"
     /\ call.arg[1] < state.n_rows * state.n_cols) =>
        LET idx == call.arg[1]
            row == idx \div state.n_cols
            col == idx % state.n_cols
            on_row_edge == row \in {0, state.n_rows - 1}
            on_col_edge == col \in {0, state.n_cols - 1}
        IN  /\ {call.ret[k] : k \in 1..Len(call.ret)}
                  = Adjacent(idx, state.n_rows, state.n_cols)
            /\ Len(call.ret) = Cardinality({call.ret[k] : k \in 1..Len(call.ret)})
            /\ (state.n_rows >= 3 /\ state.n_cols >= 3) =>
                  Len(call.ret) = (IF on_row_edge /\ on_col_edge THEN 3
                                   ELSE IF on_row_edge \/ on_col_edge THEN 5
                                   ELSE 8)

C8_Witness ==
    /\ call.op = "valid_neighbor_indices"
    /\ state.n_rows = 3
    /\ state.n_cols = 3
    /\ call.arg[1] = 4
    /\ Len(call.ret) = 8

\* C9: idx_to_xy and xy_to_idx are mutual inverses on the valid domain, and
\* idx_to_xy(idx) is (idx div n_cols, idx mod n_cols).
C9_MutualInverses ==
    /\ (call.op = "idx_to_xy" /\ call.arg[1] < state.n_rows * state.n_cols) =>
          /\ call.ret = <<<<call.arg[1] \div state.n_cols, call.arg[1] % state.n_cols>>>>
          /\ XyToIdx(call.ret[1], state.n_rows, state.n_cols) = <<call.arg[1]>>
    /\ (/\ call.op = "xy_to_idx"
        /\ call.arg[1][1] < state.n_rows
        /\ call.arg[1][2] < state.n_cols) =>
          /\ Len(call.ret) = 1
          /\ IdxToXy(call.ret[1], state.n_rows, state.n_cols) = <<call.arg[1]>>

C9_Witness ==
    /\ call.op = "xy_to_idx"
    /\ state.n_rows = 2
    /\ state.n_cols = 3
    /\ call.arg[1] = <<1, 2>>
    /\ call.ret = <<5>>

\* C10: idx_to_xy fails exactly when idx >= n_rows * n_cols and xy_to_idx
\* fails exactly when row >= n_rows or col >= n_cols; otherwise each
\* returns a success value.
C10_FailureExactlyOutOfRange ==
    /\ call.op = "idx_to_xy" =>
          /\ (call.ret = None) <=> (call.arg[1] >= state.n_rows * state.n_cols)
          /\ Len(call.ret) \in {0, 1}
    /\ call.op = "xy_to_idx" =>
          /\ (call.ret = None) <=>
                (call.arg[1][1] >= state.n_rows \/ call.arg[1][2] >= state.n_cols)
          /\ Len(call.ret) \in {0, 1}

C10_Witness ==
    /\ call.op = "xy_to_idx"
    /\ state.n_rows = 2
    /\ state.n_cols = 3
    /\ call.arg[1] = <<1, 3>>
    /\ call.ret = None

====
